---- MODULE Spec2Model ----
(***************************************************************************)
(* Model of src/app.py: the email delivery diagnostics dashboard.          *)
(*                                                                         *)
(* The four CSV files are the input; load_and_diagnose_data builds the     *)
(* report once (st.cache_data), and every script run renders the summary,  *)
(* answers one lookup and builds the export from that report.              *)
(*                                                                         *)
(* A string is a sequence of one-character strings; a CSV cell is either   *)
(* NaN (an empty field, as pandas reads it) or a non-empty string.  A      *)
(* column with rows but no string in it is read as float64 and has no .str *)
(* accessor: using it raises AttributeError, which nothing catches.        *)
(***************************************************************************)
EXTENDS Integers, Sequences, FiniteSets, TLC

\* ------------------------------------------------------------------ bounds

\* Largest number of data rows of the universe file.
MaxRows == 2

\* ------------------------------------------------------------------ strings

Whitespace == {" "}

LowerCase(c) ==
  CASE c = "A" -> "a"
    [] c = "B" -> "b"
    [] OTHER -> c

RECURSIVE lstrip(_)
lstrip(s) ==
  IF s # <<>> /\ Head(s) \in Whitespace THEN lstrip(Tail(s)) ELSE s

RECURSIVE rstrip(_)
rstrip(s) ==
  IF s # <<>> /\ s[Len(s)] \in Whitespace
    THEN rstrip(SubSeq(s, 1, Len(s) - 1))
    ELSE s

\* str.strip()
strip(s) == rstrip(lstrip(s))

\* str.lower()
lower(s) == [i \in 1..Len(s) |-> LowerCase(s[i])]

\* ------------------------------------------------------------------ cells

NaN == [isna |-> TRUE, str |-> <<>>]

Str(s) == [isna |-> FALSE, str |-> s]

\* Series.str.strip(): NaN stays NaN
str_strip(c) == IF c.isna THEN NaN ELSE Str(strip(c.str))

\* Series.str.lower(): NaN stays NaN
str_lower(c) == IF c.isna THEN NaN ELSE Str(lower(c.str))

\* ------------------------------------------------------------------ CONFIG

Keys == <<"original", "successful", "soft_bounce", "hard_bounce">>

KeyNames == {Keys[i] : i \in 1..Len(Keys)}

CONFIG ==
  [k \in KeyNames |->
     CASE k = "original"    -> [path |-> "soai_l1_all_cohorts.csv", col |-> "email"]
       [] k = "successful"  -> [path |-> "total_successfull.csv", col |-> "email"]
       [] k = "soft_bounce" -> [path |-> "soft_bounces.csv", col |-> "email"]
       [] k = "hard_bounce" -> [path |-> "hard_bounces.csv", col |-> "email"]]

Statuses == {"Successful", "Hard Bounce", "Soft Bounce", "Upload Failure (Derived)"}

\* ------------------------------------------------------------------ inputs

\* Cells of the universe file's identifier column.
UniverseCells ==
  {NaN, Str(<<" ">>), Str(<<"a">>), Str(<<" ", "A", " ">>), Str(<<"B">>)}

RECURSIVE SeqsUpTo(_, _)
SeqsUpTo(S, n) ==
  IF n = 0 THEN {<<>>}
  ELSE LET shorter == SeqsUpTo(S, n - 1)
       IN  shorter \cup {Append(s, x) : s \in {t \in shorter : Len(t) = n - 1}, x \in S}

\* Identifier columns of the outcome files.
OutcomeColumns ==
  { <<>>,
    <<Str(<<"A", " ">>)>>,
    <<NaN>>,
    <<NaN, Str(<<" ", "a">>), Str(<<"b">>)>>,
    <<Str(<<" ">>), Str(<<"B">>)>> }

Missing == [exists |-> FALSE, hascol |-> FALSE, cells |-> <<>>]

NoColumn == [exists |-> TRUE, hascol |-> FALSE, cells |-> <<>>]

Table(cells) == [exists |-> TRUE, hascol |-> TRUE, cells |-> cells]

UniverseFiles == {Missing, NoColumn} \cup {Table(c) : c \in SeqsUpTo(UniverseCells, MaxRows)}

OutcomeFiles == {Missing, NoColumn} \cup {Table(c) : c \in OutcomeColumns}

Queries == {<<>>, <<" ">>, <<"a">>, <<" ", "A", " ">>, <<"B">>}

\* ------------------------------------------------------------------ loading

\* pd.read_csv of an existing file: the identifier column (when the file has
\* it) with the default RangeIndex.
read_csv(f) ==
  [hascol |-> f.hascol,
   rows   |-> [i \in 1..Len(f.cells) |-> [idx |-> i - 1, email |-> f.cells[i]]]]

ErrFileNotFound(path) == [kind |-> "FileNotFound", path |-> path, col |-> ""]

ErrHint == [kind |-> "SameFolderHint", path |-> "", col |-> ""]

ErrColumn(col, path) == [kind |-> "ColumnNotFound", path |-> path, col |-> col]

\* The uncaught exception, as the page shows it.
ErrAttribute == [kind |-> "AttributeError", path |-> "", col |-> ""]

\* Whether Series.str is available: an empty column and a column with at least
\* one string are object columns, a column of NaN only is float64.
has_str_accessor(cells) ==
  Len(cells) = 0 \/ \E i \in 1..Len(cells) : ~cells[i].isna

\* The read loop: the files are read in CONFIG order and the first
\* FileNotFoundError leaves the loop.
RECURSIVE read_all(_, _)
read_all(fs, i) ==
  IF i > Len(Keys) THEN [ok |-> TRUE, filename |-> ""]
  ELSE IF ~fs[Keys[i]].exists
    THEN [ok |-> FALSE, filename |-> CONFIG[Keys[i]].path]
    ELSE read_all(fs, i + 1)

\* check_columns with the early return lost: a file without the column is
\* passed over.
check_columns_skip(fs, i) == [ok |-> TRUE, raised |-> FALSE, key |-> ""]

\* The set-building loop, in the order of the dataframes: a file without the
\* column returns, a column without .str raises, whichever comes first.
RECURSIVE check_columns(_, _)
check_columns(fs, i) ==
  IF i > Len(Keys) THEN [ok |-> TRUE, raised |-> FALSE, key |-> ""]
  ELSE IF ~read_csv(fs[Keys[i]]).hascol
    THEN [ok |-> FALSE, raised |-> FALSE, key |-> Keys[i]]
  ELSE IF ~has_str_accessor(fs[Keys[i]].cells)
    THEN [ok |-> FALSE, raised |-> TRUE, key |-> Keys[i]]
  ELSE check_columns(fs, i + 1)

\* Series.dropna() followed by set(): the non-NaN cells.
dropna(cells) == {cells[i] : i \in {j \in 1..Len(cells) : ~cells[j].isna}}

\* set(df[col].dropna().str.strip().str.lower())
make_set(f) == {str_lower(str_strip(c)) : c \in dropna(f.cells)}

build_sets(fs) == [k \in KeyNames |-> make_set(fs[k])]

\* add_clean_email without the lower-casing.
add_clean_email_no_lower(rows) ==
  [i \in 1..Len(rows) |->
     [idx |-> rows[i].idx, email |-> rows[i].email,
      clean_email |-> str_strip(rows[i].email)]]

\* df_orig['clean_email'] = df_orig[col].str.strip().str.lower()
add_clean_email(rows) ==
  [i \in 1..Len(rows) |->
     [idx |-> rows[i].idx, email |-> rows[i].email,
      clean_email |-> str_lower(str_strip(rows[i].email))]]

RECURSIVE FilterRows(_, _, _)
FilterRows(rows, keep, i) ==
  IF i > Len(rows) THEN <<>>
  ELSE IF i \in keep
    THEN <<rows[i]>> \o FilterRows(rows, keep, i + 1)
    ELSE FilterRows(rows, keep, i + 1)

\* drop_duplicates with keep='last'.
drop_duplicates_keep_last(rows) ==
  FilterRows(rows,
             {i \in 1..Len(rows) :
                \A j \in (i + 1)..Len(rows) : rows[j].clean_email # rows[i].clean_email},
             1)

\* drop_duplicates(subset=['clean_email'], keep='first'); NaN equals NaN here.
drop_duplicates(rows) ==
  FilterRows(rows,
             {i \in 1..Len(rows) :
                \A j \in 1..(i - 1) : rows[j].clean_email # rows[i].clean_email},
             1)

\* get_status with the hard bounce test ahead of the successful test.
get_status_hard_first(email, sets) ==
  IF email \in sets["hard_bounce"] THEN "Hard Bounce"
  ELSE IF email \in sets["successful"] THEN "Successful"
  ELSE IF email \in sets["soft_bounce"] THEN "Soft Bounce"
  ELSE "Upload Failure (Derived)"

get_status(email, sets) ==
  IF email \in sets["successful"] THEN "Successful"
  ELSE IF email \in sets["hard_bounce"] THEN "Hard Bounce"
  ELSE IF email \in sets["soft_bounce"] THEN "Soft Bounce"
  ELSE "Upload Failure (Derived)"

\* df_orig['status'] = df_orig['clean_email'].apply(get_status)
add_status(rows, sets) ==
  [i \in 1..Len(rows) |->
     [idx |-> rows[i].idx, email |-> rows[i].email,
      clean_email |-> rows[i].clean_email,
      status |-> get_status(rows[i].clean_email, sets)]]

None == [kind |-> "None", rows |-> <<>>]

Unset == [kind |-> "unset", rows |-> <<>>]

DataFrame(rows) == [kind |-> "DataFrame", rows |-> rows]

RECURSIVE read_and_check(_, _)
read_and_check(fs, i) ==
  IF i > Len(Keys) THEN <<>>
  ELSE IF ~fs[Keys[i]].exists
    THEN <<ErrFileNotFound(CONFIG[Keys[i]].path), ErrHint>>
  ELSE IF ~read_csv(fs[Keys[i]]).hascol
    THEN <<ErrColumn(CONFIG[Keys[i]].col, CONFIG[Keys[i]].path)>>
  ELSE IF ~has_str_accessor(fs[Keys[i]].cells)
    THEN <<ErrAttribute>>
  ELSE read_and_check(fs, i + 1)

\* load_and_diagnose_data with the column of each file checked right after the
\* file is read.
load_and_diagnose_data_interleaved(fs) ==
  LET msgs == read_and_check(fs, 1) IN
  IF msgs = <<ErrAttribute>>
    THEN [raised |-> TRUE, value |-> Unset, msgs |-> msgs]
  ELSE IF msgs # <<>>
    THEN [raised |-> FALSE, value |-> None, msgs |-> msgs]
    ELSE
      LET df_orig == read_csv(fs["original"]).rows
          deduped == drop_duplicates(add_clean_email(df_orig))
      IN  [raised |-> FALSE,
           value |-> DataFrame(add_status(deduped, build_sets(fs))),
           msgs  |-> <<>>]

\* The body of load_and_diagnose_data: whether it raised, the value returned
\* and the elements shown (its st.error calls, or the exception).
load_and_diagnose_data(fs) ==
  LET r == read_all(fs, 1) IN
  IF ~r.ok
    THEN [raised |-> FALSE, value |-> None,
          msgs |-> <<ErrFileNotFound(r.filename), ErrHint>>]
    ELSE
      LET c == check_columns(fs, 1) IN
      IF c.raised
        THEN [raised |-> TRUE, value |-> Unset, msgs |-> <<ErrAttribute>>]
      ELSE IF ~c.ok
        THEN [raised |-> FALSE, value |-> None,
              msgs  |-> <<ErrColumn(CONFIG[c.key].col, CONFIG[c.key].path)>>]
        ELSE
          LET df_orig == read_csv(fs["original"]).rows
              deduped == drop_duplicates(add_clean_email(df_orig))
          IN  [raised |-> FALSE,
               value |-> DataFrame(add_status(deduped, build_sets(fs))),
               msgs  |-> <<>>]

\* ------------------------------------------------------------------ UI

\* value_counts as over a categorical column: an entry for every label.
value_counts_all_labels(rows) ==
  [s \in Statuses |-> Cardinality({i \in 1..Len(rows) : rows[i].status = s})]

\* Series.value_counts(): one entry per value that occurs.
value_counts(rows) ==
  [s \in {rows[i].status : i \in 1..Len(rows)} |->
     Cardinality({i \in 1..Len(rows) : rows[i].status = s})]

\* Series.get(key, default)
series_get(counts, key, default) ==
  IF key \in DOMAIN counts THEN counts[key] ELSE default

NoSummary == [shown |-> FALSE, status_counts |-> <<>>, total |-> 0,
              successful |-> 0, failures |-> 0]

\* The summary block: status_counts and the three metrics.
summary_of(rows) ==
  LET status_counts == value_counts(rows)
      total == Len(rows)
      successful == series_get(status_counts, "Successful", 0)
  IN  [shown |-> TRUE, status_counts |-> status_counts, total |-> total,
       successful |-> successful, failures |-> total - successful]

NoMessage == [level |-> "none", status |-> ""]

\* The selection made on the raw identifier column.
select_raw(rows, clean_email) ==
  FilterRows(rows,
             {i \in 1..Len(rows) :
                ~rows[i].email.isna /\ rows[i].email.str = clean_email},
             1)

\* final_report[final_report['clean_email'] == clean_email]; NaN equals nothing.
select_clean(rows, clean_email) ==
  FilterRows(rows,
             {i \in 1..Len(rows) :
                ~rows[i].clean_email.isna /\ rows[i].clean_email.str = clean_email},
             1)

\* lookup with the query lower-cased but not trimmed.
lookup_no_strip(rows, email_to_check) ==
  IF email_to_check = <<>> THEN NoMessage
  ELSE
    LET clean_email == lower(email_to_check)
        result == select_clean(rows, clean_email)
    IN  IF result # <<>>
          THEN LET status == result[1].status IN
               IF status = "Upload Failure (Derived)"
                 THEN [level |-> "error", status |-> status]
               ELSE IF status = "Successful"
                 THEN [level |-> "success", status |-> status]
               ELSE [level |-> "warning", status |-> status]
          ELSE [level |-> "info", status |-> "Can't Find"]

\* The lookup block: what is shown for the text entered in the box.
lookup(rows, email_to_check) ==
  IF email_to_check = <<>> THEN NoMessage
  ELSE
    LET clean_email == lower(strip(email_to_check))
        result == select_clean(rows, clean_email)
    IN  IF result # <<>>
          THEN LET status == result[1].status IN
               IF status = "Upload Failure (Derived)"
                 THEN [level |-> "error", status |-> status]
               ELSE IF status = "Successful"
                 THEN [level |-> "success", status |-> status]
               ELSE [level |-> "warning", status |-> status]
          ELSE [level |-> "info", status |-> "Can't Find"]

\* final_report[[col, 'status']].rename(columns={col: "Email"})
report_to_display(rows) ==
  [i \in 1..Len(rows) |-> [Email |-> rows[i].email, status |-> rows[i].status]]

\* DataFrame.to_csv(index=False): NaN is written as an empty field.
to_csv(display) ==
  [i \in 1..Len(display) |->
     <<IF display[i].Email.isna THEN <<>> ELSE display[i].Email.str,
       display[i].status>>]

NoDownload == [offered |-> FALSE, lines |-> <<>>]

\* ------------------------------------------------------------------ state

VARIABLES
  files,          \* the four CSV files on disk
  cache,          \* st.cache_data's entry for load_and_diagnose_data
  final_report,   \* the script's final_report
  errors,         \* st.error elements shown by load_and_diagnose_data
  summary,        \* status_counts and the metrics
  email_to_check, \* the text of the lookup box
  message,        \* the element the lookup block shows
  download,       \* the data of the download button
  pc              \* position of the script run

vars == <<files, cache, final_report, errors, summary, email_to_check,
          message, download, pc>>

NoCache == [hit |-> FALSE, value |-> Unset, msgs |-> <<>>]

Init ==
  /\ \E original \in UniverseFiles :
       \E successful \in OutcomeFiles, soft_bounce \in OutcomeFiles,
          hard_bounce \in OutcomeFiles :
         files = [k \in KeyNames |->
                    CASE k = "original"    -> original
                      [] k = "successful"  -> successful
                      [] k = "soft_bounce" -> soft_bounce
                      [] k = "hard_bounce" -> hard_bounce]
  /\ cache = NoCache
  /\ final_report = Unset
  /\ errors = <<>>
  /\ summary = NoSummary
  /\ email_to_check = <<>>
  /\ message = NoMessage
  /\ download = NoDownload
  /\ pc = "start"

\* final_report = load_and_diagnose_data(), through st.cache_data: the first
\* call computes and stores, a later call returns the stored value and replays
\* the stored elements.  A None report skips the rest of the script; a call
\* that raises stores nothing, assigns nothing and ends the run.
LoadAndDiagnose ==
  /\ pc = "start"
  /\ LET out == IF cache.hit
                  THEN [raised |-> FALSE, value |-> cache.value, msgs |-> cache.msgs]
                  ELSE load_and_diagnose_data(files)
     IN  /\ cache' = IF out.raised THEN cache
                     ELSE [hit |-> TRUE, value |-> out.value, msgs |-> out.msgs]
         /\ final_report' = IF out.raised THEN final_report ELSE out.value
         /\ errors' = out.msgs
         /\ pc' = IF out.raised \/ out.value = None THEN "done" ELSE "summary"
  /\ UNCHANGED <<files, summary, email_to_check, message, download>>

Summary ==
  /\ pc = "summary"
  /\ summary' = summary_of(final_report.rows)
  /\ pc' = "lookup"
  /\ UNCHANGED <<files, cache, final_report, errors, email_to_check, message,
                 download>>

\* Lookup with the selection assigned to final_report itself.
LookupInPlace(q) ==
  /\ pc = "lookup"
  /\ email_to_check' = q
  /\ message' = lookup(final_report.rows, q)
  /\ final_report' = DataFrame(select_clean(final_report.rows, lower(strip(q))))
  /\ pc' = "export"
  /\ UNCHANGED <<files, cache, errors, summary, download>>

Lookup(q) ==
  /\ pc = "lookup"
  /\ email_to_check' = q
  /\ message' = lookup(final_report.rows, q)
  /\ pc' = "export"
  /\ UNCHANGED <<files, cache, final_report, errors, summary, download>>

Export ==
  /\ pc = "export"
  /\ download' = [offered |-> TRUE,
                  lines |-> to_csv(report_to_display(final_report.rows))]
  /\ pc' = "done"
  /\ UNCHANGED <<files, cache, final_report, errors, summary, email_to_check,
                 message>>

\* Any interaction reruns the script from the top with an empty page.
\* final_report keeps the value of the run before until the new run assigns it.
Rerun ==
  /\ pc = "done"
  /\ pc' = "start"
  /\ errors' = <<>>
  /\ summary' = NoSummary
  /\ message' = NoMessage
  /\ download' = NoDownload
  /\ UNCHANGED <<files, cache, final_report, email_to_check>>

Next ==
  \/ LoadAndDiagnose
  \/ Summary
  \/ \E q \in Queries : Lookup(q)
  \/ Export
  \/ Rerun

Spec == Init /\ [][Next]_vars

\* ------------------------------------------------------------------ notions the properties use

\* Trimmed and lower-cased.
Normalized(s) == lower(strip(s))

NormalizedCell(c) == IF c.isna THEN NaN ELSE Str(Normalized(c.str))

UniverseColumn == files["original"].cells

ReportRows == final_report.rows

HasReport == final_report.kind = "DataFrame"

\* The normalized identifiers of an outcome file.
OutcomeSet(k) ==
  {Str(Normalized(files[k].cells[i].str)) :
     i \in {j \in 1..Len(files[k].cells) : ~files[k].cells[j].isna}}

Priority == <<"successful", "hard_bounce", "soft_bounce">>

Label(k) ==
  CASE k = "successful"  -> "Successful"
    [] k = "hard_bounce" -> "Hard Bounce"
    [] k = "soft_bounce" -> "Soft Bounce"

Least(S) == CHOOSE i \in S : \A j \in S : i <= j

Containing(c) == {i \in 1..Len(Priority) : c \in OutcomeSet(Priority[i])}

FirstCategory(c) ==
  IF Containing(c) = {} THEN "Upload Failure (Derived)"
  ELSE Label(Priority[Least(Containing(c))])

LookupDone == HasReport /\ pc \in {"export", "done"}

\* ------------------------------------------------------------------ C1

\* C1: every row of the report carries the label of the first category, in
\* the order Successful, Hard Bounce, Soft Bounce, whose normalized set holds
\* the row's normalized identifier, and the derived upload failure exactly
\* when no set holds it.
C1_FirstMatchingCategory ==
  HasReport =>
    \A i \in 1..Len(ReportRows) :
      /\ ReportRows[i].status = FirstCategory(NormalizedCell(ReportRows[i].email))
      /\ (ReportRows[i].status = "Upload Failure (Derived)"
            <=> Containing(NormalizedCell(ReportRows[i].email)) = {})

\* A report row whose identifier is in the successful and the hard bounce set
\* next to a row that is in no set.
C1_Witness ==
  /\ HasReport
  /\ \E i \in 1..Len(ReportRows) :
       /\ ReportRows[i].clean_email \in OutcomeSet("successful")
       /\ ReportRows[i].clean_email \in OutcomeSet("hard_bounce")
       /\ ReportRows[i].status = "Successful"
  /\ \E i \in 1..Len(ReportRows) :
       /\ Containing(ReportRows[i].clean_email) = {}
       /\ ReportRows[i].status = "Upload Failure (Derived)"

\* ------------------------------------------------------------------ C2

\* C2: the report has no row whose normalized identifier is null or the empty
\* string, and the total counts only the other rows of the universe file.
C2_NullAndEmptyDropped ==
  /\ HasReport =>
       \A i \in 1..Len(ReportRows) :
         /\ ~ReportRows[i].clean_email.isna
         /\ ReportRows[i].clean_email.str # <<>>
  /\ summary.shown =>
       summary.total =
         Cardinality({NormalizedCell(UniverseColumn[i]) : i \in 1..Len(UniverseColumn)}
                       \ {NaN, Str(<<>>)})

\* ------------------------------------------------------------------ C3

RowsWithStatus(s) == {i \in 1..Len(ReportRows) : ReportRows[i].status = s}

\* C3 as stated: status_counts has an entry for each of the four labels, 0 for
\* a label no contact received.
C3_FullEnumeration ==
  summary.shown =>
    /\ DOMAIN summary.status_counts = Statuses
    /\ \A s \in Statuses : summary.status_counts[s] = Cardinality(RowsWithStatus(s))

\* C3 amended: status_counts has an entry exactly for the labels that at least
\* one contact received, each with its number of contacts; a label no contact
\* received has no entry, and the successful metric reads it as 0.
C3_ReceivedLabelsOnly ==
  summary.shown =>
    /\ DOMAIN summary.status_counts = {s \in Statuses : RowsWithStatus(s) # {}}
    /\ \A s \in DOMAIN summary.status_counts :
         summary.status_counts[s] = Cardinality(RowsWithStatus(s))
    /\ summary.successful = Cardinality(RowsWithStatus("Successful"))
    /\ summary.total = Len(ReportRows)
    /\ summary.failures = summary.total - summary.successful

\* The summary of a report where two labels were received and Soft Bounce was
\* not.
C3_Witness ==
  /\ summary.shown
  /\ DOMAIN summary.status_counts = {"Successful", "Hard Bounce"}
  /\ "Soft Bounce" \notin DOMAIN summary.status_counts

\* ------------------------------------------------------------------ C4

Range(s) == {s[i] : i \in 1..Len(s)}

AnyLoadError == \E k \in KeyNames : ~files[k].exists \/ ~files[k].hascol

C5_SameNormalizedSameOutcome ==
  LookupDone =>
    \A q \in Queries :
      Normalized(q) = Normalized(email_to_check) =>
        lookup(ReportRows, q) = message

\* C5 amended: any two non-empty queries that normalize to the same value get
\* the same outcome; the empty box shows no outcome at all, also when a query
\* of white space only is answered.
C5_NonEmptySameNormalizedSameOutcome ==
  LookupDone =>
    \A q \in Queries :
      (q # <<>> /\ email_to_check # <<>>
         /\ Normalized(q) = Normalized(email_to_check)) =>
        lookup(ReportRows, q) = message

\* A status shown for a query with capitals and surrounding white space.
C5_Witness ==
  /\ LookupDone
  /\ email_to_check = <<" ", "A", " ">>
  /\ message.status \in Statuses

\* ------------------------------------------------------------------ C6

Matching(q) ==
  {i \in 1..Len(ReportRows) :
     NormalizedCell(ReportRows[i].email) = Str(Normalized(q))}

NotFound == [level |-> "info", status |-> "Can't Find"]

StatusOrNotFound(q) ==
  IF Matching(q) # {}
    THEN /\ message.level \in {"error", "success", "warning"}
         /\ \A i \in Matching(q) : message.status = ReportRows[i].status
    ELSE message = NotFound

\* C6 as stated: every query gets the status of the universe entry with the
\* same normalized identifier, or the not-found outcome.
C6_StatusOrNotFound ==
  /\ NotFound.status \notin Statuses
  /\ LookupDone => StatusOrNotFound(email_to_check)

\* C6 amended: every non-empty query gets the status of the universe entry
\* with the same normalized identifier, or the not-found outcome, which is no
\* status label; the empty box gets no outcome.
C6_NonEmptyStatusOrNotFound ==
  /\ NotFound.status \notin Statuses
  /\ LookupDone =>
       IF email_to_check = <<>>
         THEN message = NoMessage
         ELSE StatusOrNotFound(email_to_check)

\* The not-found outcome for a query against a report that has rows.
C6_Witness ==
  /\ LookupDone
  /\ ReportRows # <<>>
  /\ email_to_check = <<"B">>
  /\ message = NotFound

\* ------------------------------------------------------------------ C7

SameIdentifier(i) ==
  {j \in 1..Len(UniverseColumn) :
     NormalizedCell(UniverseColumn[j]) = NormalizedCell(UniverseColumn[i])}

RowsOf(i) ==
  {r \in 1..Len(ReportRows) :
     ReportRows[r].clean_email = NormalizedCell(UniverseColumn[i])}

\* C7: for rows of the universe file with the same normalized identifier the
\* report and the export have exactly one row, and it shows the raw identifier
\* of the first of them in file order.
C7_FirstOccurrenceWins ==
  HasReport =>
    /\ \A i \in 1..Len(UniverseColumn) :
         /\ Cardinality(RowsOf(i)) = 1
         /\ \A r \in RowsOf(i) :
              /\ ReportRows[r].idx = Least(SameIdentifier(i)) - 1
              /\ ReportRows[r].email = UniverseColumn[Least(SameIdentifier(i))]
    /\ download.offered =>
         /\ Len(download.lines) = Len(ReportRows)
         /\ \A r \in 1..Len(ReportRows) :
              /\ ~ReportRows[r].email.isna =>
                   download.lines[r][1] = ReportRows[r].email.str
              /\ download.lines[r][2] = ReportRows[r].status

\* The export of a universe file whose two rows differ only in case and white
\* space.
C7_Witness ==
  /\ UniverseColumn = <<Str(<<" ", "A", " ">>), Str(<<"a">>)>>
  /\ HasReport
  /\ download.offered
  /\ download.lines = <<<< <<" ", "A", " ">>, ReportRows[1].status >>>>

\* ------------------------------------------------------------------ C8

UniverseIdentifiers ==
  {NormalizedCell(UniverseColumn[i]) : i \in 1..Len(UniverseColumn)}

\* C8: the report has exactly one row per normalized identifier of the
\* universe file, each with one of the four labels, no other row, and the
\* export has one line per such identifier.
C8_OneRowPerIdentifier ==
  HasReport =>
    /\ {ReportRows[r].clean_email : r \in 1..Len(ReportRows)} = UniverseIdentifiers
    /\ \A r \in 1..Len(ReportRows) :
         /\ ReportRows[r].clean_email = NormalizedCell(ReportRows[r].email)
         /\ ReportRows[r].status \in Statuses
         /\ \A u \in 1..Len(ReportRows) :
              ReportRows[u].clean_email = ReportRows[r].clean_email => u = r
    /\ Len(ReportRows) = Cardinality(UniverseIdentifiers)
    /\ download.offered => Len(download.lines) = Cardinality(UniverseIdentifiers)

\* The export of a report with two contacts of different status.
C8_Witness ==
  /\ HasReport
  /\ download.offered
  /\ Len(download.lines) = Len(UniverseColumn)
  /\ Len(ReportRows) > 1
  /\ ReportRows[1].status # ReportRows[2].status

\* ------------------------------------------------------------------ C9

\* C9: once computed the report never changes, whatever is looked up,
\* summarised or exported, and a later run gets the report that running the
\* classification on the files gives.
C9_ReportNeverMutated ==
  [][/\ final_report # Unset => final_report' = final_report
     /\ (pc = "start" /\ pc' # "start") =>
          final_report' = load_and_diagnose_data(files').value]_vars

\* A later run, after a lookup, holding a report with rows.
C9_Witness ==
  /\ cache.hit
  /\ pc = "lookup"
  /\ email_to_check # <<>>
  /\ HasReport
  /\ ReportRows # <<>>

\* ------------------------------------------------------------------ C10

MissingFiles == {i \in 1..Len(Keys) : ~files[Keys[i]].exists}

FilesWithoutColumn ==
  {i \in 1..Len(Keys) : files[Keys[i]].exists /\ ~files[Keys[i]].hascol}

\* The files whose identifier column has rows and no string among them.
FilesOfNaNOnly ==
  {i \in 1..Len(Keys) :
     /\ files[Keys[i]].hascol
     /\ files[Keys[i]].cells # <<>>
     /\ \A j \in 1..Len(files[Keys[i]].cells) : files[Keys[i]].cells[j].isna}

PathOf(i) ==
  CASE i = 1 -> "soai_l1_all_cohorts.csv"
    [] i = 2 -> "total_successfull.csv"
    [] i = 3 -> "soft_bounces.csv"
    [] i = 4 -> "hard_bounces.csv"

\* C10: with a file missing, the failure shown is file-not-found for the first
\* missing file in CONFIG order and no missing-column failure, also when an
\* earlier file lacks its column; a missing-column failure is shown only when
\* all four files exist, for the first file in CONFIG order without the
\* column, and it is shown then unless an earlier file's column raised.
C10_ReadBeforeColumnCheck ==
  pc # "start" =>
    /\ MissingFiles # {} =>
         /\ errors = <<ErrFileNotFound(PathOf(Least(MissingFiles))), ErrHint>>
         /\ final_report = None
    /\ \A i \in 1..Len(errors) :
         errors[i].kind = "ColumnNotFound" =>
           /\ MissingFiles = {}
           /\ FilesWithoutColumn # {}
           /\ errors = <<ErrColumn("email", PathOf(Least(FilesWithoutColumn)))>>
    /\ (MissingFiles = {} /\ FilesWithoutColumn # {}) =>
         IF \E j \in FilesOfNaNOnly : j < Least(FilesWithoutColumn)
           THEN errors = <<ErrAttribute>>
           ELSE errors = <<ErrColumn("email", PathOf(Least(FilesWithoutColumn)))>>

\* The universe file lacks its column and a later file is missing: the
\* failure shown is the missing file.
C10_Witness ==
  /\ pc = "done"
  /\ files["original"] = NoColumn
  /\ files["successful"] = NoColumn
  /\ files["soft_bounce"] = Missing
  /\ files["hard_bounce"] = Missing
  /\ errors[1] = ErrFileNotFound("soft_bounces.csv")

====
